---- MODULE Spec2Model ----
(***************************************************************************)
(* Institutional-flow engine: the history store (db.py), the signal        *)
(* computations (calculations.py, classification.py) and the three         *)
(* pipelines that drive them: the live run (main.py), the CSV backfill     *)
(* (backfill.py) and the neutral seeding (seed_neutral_history.py).        *)
(*                                                                         *)
(* Numbers.  Python floats are modelled in fixed point.  A score (z-score, *)
(* sts, irs) is an integer count of 1/Unit; every arithmetic operation of  *)
(* the code is one fixed-point operation rounded to the nearest unit.      *)
(* round(x, 3) keeps thousandths, so a persisted score is a count of       *)
(* 1/1000.  Raw observations are integers: fii_net and dii_net count       *)
(* thousandths (round(x, 2) keeps hundredths), net_position and open       *)
(* interest count contracts, pcr counts tenths.  Trade dates are day       *)
(* numbers; day d falls on weekday d % 7 (0 = Monday).  Where the exact    *)
(* value of a float is in question (the EMA bootstrap) the arithmetic is   *)
(* IEEE 754 binary64, bit for bit.                                         *)
(***************************************************************************)
EXTENDS Integers, Sequences, FiniteSets, TLC

\* ------------------------------------------------------------------------
\* Program constants
\* ------------------------------------------------------------------------
HISTORY_N      == 30   \* fetch_last_n(..., 30)
LIVE_MIN       == 20   \* history gate of run()
BACKFILL_MIN   == 30   \* history gate of backfill_from_csv
SEED_DAYS      == 30   \* seed_neutral_history(30)
EMA_PERIOD     == 10   \* calculate_ema(..., period=10)
TG_RETRIES     == 3    \* send_message(text, retries=3)
PCR_NEUTRAL    == 10   \* the neutral pcr of 1, counted in tenths
MAX_RETRIES    == 4    \* attempts of NSEClient.get_json
INITIAL_DELAY_SEC == 15   \* 1.5 s, counted in tenths of a second

\* ------------------------------------------------------------------------
\* Bounds of the model
\* ------------------------------------------------------------------------
StartDay == 31   \* the calendar day of the first state
MaxDay   == 32   \* the clock stops here
MaxRuns  == 2    \* live and backfill runs started in one behaviour
MaxSeeds == 1    \* seeding runs in one behaviour
MaxFaults == 1   \* store calls that raise in one behaviour
MaxStsCents == 300   \* the largest sts, in hundredths, of a bootstrap
MaxScoreCents == 350 \* the largest score, in hundredths, handed to a classifier
MaxHist == 3         \* the longest history handed to calculate_z_score on its own

\* ------------------------------------------------------------------------
\* Fixed-point arithmetic
\* ------------------------------------------------------------------------
Unit  == 10^4          \* internal resolution of a score: 1.0 = Unit
Milli == 10^3          \* resolution of a persisted score: round(x, 3)

Abs(x) == IF x < 0 THEN -x ELSE x

\* F(x), with x evaluated once and before F: keeps long folds shallow
Strict(x, F(_)) == CHOOSE r \in {F(v) : v \in {x}} : TRUE

\* a / b rounded to the nearest integer, ties to even (b > 0)
RoundDiv(a, b) ==
    LET q == a \div b
        r == a % b
    IN  IF 2 * r < b THEN q
        ELSE IF 2 * r > b THEN q + 1
        ELSE IF q % 2 = 0 THEN q ELSE q + 1

\* product of two fixed-point numbers
FMul(a, b) == RoundDiv(a * b, Unit)

RECURSIVE IsqrtIn(_, _, _)
IsqrtIn(n, lo, hi) ==
    IF lo >= hi THEN lo
    ELSE LET mid == (lo + hi + 1) \div 2
         IN  IF mid * mid <= n THEN IsqrtIn(n, mid, hi)
                               ELSE IsqrtIn(n, lo, mid - 1)

\* floor of the square root
Isqrt(n) == IsqrtIn(n, 0, 46340)

RECURSIVE SumRange(_, _, _, _)
SumRange(s, lo, hi, square) ==
    IF lo > hi THEN 0
    ELSE IF lo = hi THEN (IF square THEN s[lo] * s[lo] ELSE s[lo])
    ELSE LET mid == (lo + hi) \div 2
         IN  SumRange(s, lo, mid, square) + SumRange(s, mid + 1, hi, square)

SumSeq(s) == SumRange(s, 1, Len(s), FALSE)     \* sum of the values
SumSqSeq(s) == SumRange(s, 1, Len(s), TRUE)    \* sum of their squares

Min2(a, b) == IF a < b THEN a ELSE b
Max2(a, b) == IF a > b THEN a ELSE b
\* max(min(x, 3), -3)
Clamp3_unclamped(x) == x
Clamp3(x) == Max2(Min2(x, 3 * Unit), -3 * Unit)

\* round(x, 3) of a score: Unit -> Milli
Round3(x) == RoundDiv(x, Unit \div Milli)
\* a persisted score read back as a float
FromMilli(m) == m * (Unit \div Milli)
\* round(x, 2) of a cash value counted in thousandths
Round2(x) == RoundDiv(x, 10)

\* ------------------------------------------------------------------------
\* Python floats: IEEE 754 binary64, round to nearest, ties to even.  A float
\* is [s, m, e] with value (-1)^s * m * 2^e, where m is 0 or has exactly 53
\* bits; m is a natural number written in limbs, least significant first.
\* Values stay far from overflow and from the subnormal range.
\* ------------------------------------------------------------------------
LimbBits == 14
Limb == 2^LimbBits
MantBits == 53
MantLimbs == 4

LimbAt(a, i) == IF i >= 1 /\ i <= Len(a) THEN a[i] ELSE 0

\* the n limbs of the number whose columns (limbs not yet reduced) are cols
Carried(cols, n) ==
    LET carry[i \in 0..n] ==
            IF i = 0 THEN 0 ELSE (LimbAt(cols, i) + carry[i - 1]) \div Limb
    IN  [i \in 1..n |-> (LimbAt(cols, i) + carry[i - 1]) % Limb]

BigAdd(a, b) ==
    LET n == Max2(Len(a), Len(b))
    IN  Carried([i \in 1..n |-> LimbAt(a, i) + LimbAt(b, i)], n + 1)

\* a - b for a >= b
BigSub(a, b) ==
    LET n == Max2(Len(a), Len(b))
        borrow[i \in 0..n] ==
            IF i = 0 THEN 0
            ELSE IF LimbAt(a, i) - LimbAt(b, i) - borrow[i - 1] < 0 THEN 1 ELSE 0
    IN  [i \in 1..n |-> (LimbAt(a, i) - LimbAt(b, i) - borrow[i - 1] + Limb) % Limb]

\* a * b, where no column sums more than MantLimbs products
BigMul(a, b) ==
    LET n == Len(a) + Len(b)
        col(k) == LET part[i \in 0..Len(a)] ==
                          IF i = 0 THEN 0
                          ELSE part[i - 1] + a[i] * LimbAt(b, k + 1 - i)
                  IN  part[Len(a)]
    IN  Carried([k \in 1..n |-> col(k)], n)

\* -1, 0 or 1 as a is below, equal to or above b
BigCmp(a, b) ==
    LET n == Max2(Len(a), Len(b))
        differ == {i \in 1..n : LimbAt(a, i) # LimbAt(b, i)}
    IN  IF differ = {} THEN 0
        ELSE LET top == CHOOSE i \in differ : \A j \in differ : j <= i
             IN  IF LimbAt(a, top) > LimbAt(b, top) THEN 1 ELSE -1

BigIsZero(a) == \A i \in 1..Len(a) : a[i] = 0

\* the number of bits of a
BitLen(a) ==
    LET nonzero == {i \in 1..Len(a) : a[i] # 0}
    IN  IF nonzero = {} THEN 0
        ELSE LET top == CHOOSE i \in nonzero : \A j \in nonzero : j <= i
             IN  (top - 1) * LimbBits
                   + (CHOOSE b \in 1..LimbBits : 2^(b - 1) <= a[top] /\ a[top] < 2^b)

\* bit k of a, counted from 0
BigBit(a, k) == (LimbAt(a, k \div LimbBits + 1) \div 2^(k % LimbBits)) % 2

\* 2^n
BigPow2(n) ==
    [i \in 1..(n \div LimbBits + 1) |->
        IF i = n \div LimbBits + 1 THEN 2^(n % LimbBits) ELSE 0]

\* a * 2^n
BigShl(a, n) == BigMul(a, BigPow2(n))

\* a \div 2^n
BigShr(a, n) ==
    LET q == n \div LimbBits
        r == n % LimbBits
    IN  [i \in 1..Len(a) |->
            (LimbAt(a, i + q) \div 2^r)
              + (LimbAt(a, i + q + 1) % 2^r) * 2^(LimbBits - r)]

\* a % 2^n = 0
BigLowZero(a, n) ==
    /\ \A i \in 1..(n \div LimbBits) : LimbAt(a, i) = 0
    /\ LimbAt(a, n \div LimbBits + 1) % 2^(n % LimbBits) = 0

\* a \div d and a % d for a small divisor d
BigDivSmall(a, d) ==
    LET n == Len(a)
        rest[i \in 0..n] ==     \* the remainder after the top i limbs
            IF i = 0 THEN 0 ELSE (rest[i - 1] * Limb + a[n + 1 - i]) % d
    IN  [quot |-> [j \in 1..n |-> (rest[n - j] * Limb + a[j]) \div d],
         rem  |-> rest[n]]

BigOfInt(x) == <<x % Limb, x \div Limb>>     \* 0 <= x < Limb^2

F64Zero == [s |-> 0, m |-> [i \in 1..MantLimbs |-> 0], e |-> 0]

F64IsZero(x) == BigIsZero(x.m)

\* the float nearest to (-1)^sign * (n + f) * 2^e, where 0 < f < 1 if
\* sticky and f = 0 if not: ties go to the even mantissa
RoundF64(sign, n, e, sticky) ==
    LET len == BitLen(n)
    IN  IF len = 0 THEN F64Zero
        ELSE IF len <= MantBits
        THEN [s |-> sign,
              m |-> SubSeq(BigShl(n, MantBits - len), 1, MantLimbs),
              e |-> e - (MantBits - len)]
        ELSE
        LET sh    == len - MantBits
            q     == BigShr(n, sh)
            guard == BigBit(n, sh - 1) = 1
            low   == sticky \/ ~BigLowZero(n, sh - 1)
            up    == guard /\ (low \/ BigBit(q, 0) = 1)
            m     == IF up THEN BigAdd(q, <<1>>) ELSE q
        IN  IF BitLen(m) > MantBits
            THEN [s |-> sign, m |-> SubSeq(BigShr(m, 1), 1, MantLimbs),
                  e |-> e + sh + 1]
            ELSE [s |-> sign, m |-> SubSeq(m, 1, MantLimbs), e |-> e + sh]

\* n / d for ints n and d, 0 < d < 2^16, |n| < Limb^2: Python's true division
F64Ratio(n, d) ==
    LET div == BigDivSmall(BigShl(BigOfInt(Abs(n)), 5 * LimbBits), d)
    IN  RoundF64(IF n < 0 THEN 1 ELSE 0, div.quot, -(5 * LimbBits), div.rem # 0)

F64Neg(x) == IF F64IsZero(x) THEN x ELSE [x EXCEPT !.s = 1 - x.s]

\* x * y
F64Mul(x, y) ==
    IF F64IsZero(x) \/ F64IsZero(y) THEN F64Zero
    ELSE RoundF64((x.s + y.s) % 2, BigMul(x.m, y.m), x.e + y.e, FALSE)

\* x + y
F64Add(x, y) ==
    IF F64IsZero(x) THEN y
    ELSE IF F64IsZero(y) THEN x
    ELSE
    LET e  == Min2(x.e, y.e)
        xm == BigShl(x.m, x.e - e)
        ym == BigShl(y.m, y.e - e)
    IN  IF x.s = y.s THEN RoundF64(x.s, BigAdd(xm, ym), e, FALSE)
        ELSE IF BigCmp(xm, ym) >= 0 THEN RoundF64(x.s, BigSub(xm, ym), e, FALSE)
        ELSE RoundF64(y.s, BigSub(ym, xm), e, FALSE)

\* x - y
F64Sub(x, y) == F64Add(x, F64Neg(y))

\* x < y
F64Lt(x, y) ==
    LET d == F64Sub(x, y)
    IN  ~F64IsZero(d) /\ d.s = 1

\* the extra quotient and root bits kept for rounding
GuardBits == MantBits + 3

\* a, written out limb by limb
Limbs(a) == SubSeq(a, 1, Len(a))

ZeroLimbs == Limbs([i \in 1..(MantLimbs + 1) |-> 0])

\* q with its bit k, which was 0, set
SetBit(q, k) == Limbs([q EXCEPT ![k \div LimbBits + 1] = @ + 2^(k % LimbBits)])

\* c * c <= a if sq, c * b <= a if not
Fits(c, a, b, sq) ==
    Strict(Limbs(BigMul(c, IF sq THEN c ELSE b)), LAMBDA p : BigCmp(p, a) <= 0)

\* q with those of the bits hi down to lo set that keep it fitting: with q = 0
\* the integer square root of a, or the integer quotient a \div b
RECURSIVE BigSearch(_, _, _, _, _, _)
BigSearch(q, a, b, sq, hi, lo) ==
    IF hi < lo THEN q
    ELSE IF hi = lo
    THEN Strict(SetBit(q, hi), LAMBDA c : IF Fits(c, a, b, sq) THEN c ELSE q)
    ELSE Strict(BigSearch(q, a, b, sq, hi, (lo + hi) \div 2 + 1),
                LAMBDA top : BigSearch(top, a, b, sq, (lo + hi) \div 2, lo))

\* x / y for y # 0
F64Div(x, y) ==
    IF F64IsZero(x) THEN F64Zero
    ELSE
    Strict(Limbs(BigShl(x.m, GuardBits)), LAMBDA a :
    Strict(BigSearch(ZeroLimbs, a, y.m, FALSE, GuardBits, 0), LAMBDA q :
        RoundF64((x.s + y.s) % 2, q, x.e - y.e - GuardBits,
                 BigCmp(BigMul(q, y.m), a) # 0)))

\* the square root of x >= 0
F64Sqrt(x) ==
    IF F64IsZero(x) THEN F64Zero
    ELSE
    LET k == GuardBits + ((x.e - GuardBits) % 2)
    IN  Strict(Limbs(BigShl(x.m, k)), LAMBDA a :
        Strict(BigSearch(ZeroLimbs, a, a, TRUE, GuardBits - 1, 0), LAMBDA r :
            RoundF64(0, r, (x.e - k) \div 2, BigCmp(BigMul(r, r), a) # 0)))

\* ------------------------------------------------------------------------
\* calculations.py
\* ------------------------------------------------------------------------
\* n^2 times the population variance of the history: np.std is 0 iff this is
VarNum(historical_values) ==
    Len(historical_values) * SumSqSeq(historical_values)
        - SumSeq(historical_values) * SumSeq(historical_values)

calculate_z_score(today_value, historical_values) ==
    LET n   == Len(historical_values)
        num == n * today_value - SumSeq(historical_values)   \* n * (value - mean)
        d   == VarNum(historical_values)                     \* (n * std)^2
    IN  IF d = 0 THEN 0
        ELSE Clamp3(RoundDiv(num * 100 * Unit, Isqrt(d * 10000)))

calculate_futures_z_swapped(position_z, oi_z) ==
    FMul(oi_z, 6 * (Unit \div 10)) + FMul(position_z, 4 * (Unit \div 10))

calculate_futures_z(position_z, oi_z) ==
    FMul(position_z, 6 * (Unit \div 10)) + FMul(oi_z, 4 * (Unit \div 10))

calculate_sts(futures_z, cash_z, pcr_z) ==
    Clamp3(FMul(futures_z, 50 * (Unit \div 100))
           + FMul(cash_z, 30 * (Unit \div 100))
           + FMul(pcr_z, 20 * (Unit \div 100)))

calculate_ema_sum(current_value, previous_ema, period) ==
    current_value + previous_ema

calculate_ema(current_value, previous_ema, period) ==
    LET alpha == RoundDiv(2 * Unit, period + 1)
    IN  FMul(current_value, alpha) + FMul(previous_ema, Unit - alpha)

\* calculate_ema on Python floats, operation by operation
calculate_ema_binary64(current_value, previous_ema, period) ==
    LET alpha == F64Ratio(2, period + 1)
    IN  F64Add(F64Mul(current_value, alpha),
               F64Mul(previous_ema, F64Sub(F64Ratio(1, 1), alpha)))

\* np.sum of fewer than 8 floats: they are added from left to right
RECURSIVE pairwise_sum(_, _, _)
pairwise_sum(res, a, i) ==
    IF i > Len(a) THEN res
    ELSE Strict(F64Add(res, a[i]), LAMBDA r : pairwise_sum(r, a, i + 1))

np_sum(a) == pairwise_sum(F64Zero, a, 1)

np_mean(a) ==
    Strict(np_sum(a), LAMBDA total :
    Strict(F64Ratio(Len(a), 1), LAMBDA n : F64Div(total, n)))

\* x * x
Squared(x) == F64Mul(x, x)

\* np.std: the root of the mean of the squared deviations from np.mean
np_std(a) ==
    Strict(np_mean(a), LAMBDA arrmean :
    Strict(SubSeq([i \in 1..Len(a) |-> Strict(F64Sub(a[i], arrmean), Squared)],
                  1, Len(a)), LAMBDA x :
    Strict(np_mean(x), F64Sqrt)))

\* max(min(z, 3), -3)
Clamp3_binary64(z) ==
    LET three == F64Ratio(3, 1)
        least == IF F64Lt(three, z) THEN three ELSE z
    IN  IF F64Lt(least, F64Neg(three)) THEN F64Neg(three) ELSE least

\* calculate_z_score on Python floats, operation by operation
calculate_z_score_binary64(today_value, historical_values) ==
    Strict(np_mean(historical_values), LAMBDA mean :
    Strict(np_std(historical_values), LAMBDA std :
        IF F64IsZero(std) THEN F64Zero
        ELSE Strict(F64Sub(today_value, mean), LAMBDA diff :
             Strict(F64Div(diff, std), Clamp3_binary64))))

\* ------------------------------------------------------------------------
\* classification.py
\* ------------------------------------------------------------------------
classify_bias_nonstrict(sts) ==
    IF sts >= 2 * Unit THEN "Strong Bullish"
    ELSE IF sts >= Unit THEN "Bullish"
    ELSE IF sts <= -2 * Unit THEN "Strong Bearish"
    ELSE IF sts <= -Unit THEN "Bearish"
    ELSE "Neutral"

classify_bias(sts) ==
    IF sts > 2 * Unit THEN "Strong Bullish"
    ELSE IF sts > Unit THEN "Bullish"
    ELSE IF sts < -2 * Unit THEN "Strong Bearish"
    ELSE IF sts < -Unit THEN "Bearish"
    ELSE "Neutral"

classify_phase(irs) ==
    IF 10 * irs > 15 * Unit THEN "Accumulation"
    ELSE IF 10 * irs > 5 * Unit THEN "Bullish Bias"
    ELSE IF 10 * irs < -15 * Unit THEN "Distribution"
    ELSE IF 10 * irs < -5 * Unit THEN "Bearish Bias"
    ELSE "Transition"

\* ------------------------------------------------------------------------
\* db.py: the store.  A table is a function from the trade dates that have
\* a row to the row; a row is a record of its columns.
\* ------------------------------------------------------------------------
Tables == {"fii_cash_raw", "dii_cash_raw", "index_futures_raw",
           "options_summary_raw", "institutional_zscores",
           "institutional_regime"}

NULL == "NULL"

Columns(table) ==
    CASE table = "fii_cash_raw"          -> {"fii_net"}
      [] table = "dii_cash_raw"          -> {"dii_net"}
      [] table = "index_futures_raw"     -> {"net_position", "oi", "oi_change"}
      [] table = "options_summary_raw"   -> {"total_call_oi", "total_put_oi", "pcr"}
      [] table = "institutional_zscores" -> {"cash_z", "futures_z", "pcr_z", "sts"}
      [] table = "institutional_regime"  -> {"sts", "irs", "market_phase", "tomorrow_bias"}

EmptyStore == [t \in Tables |-> <<>>]

\* upsert(table, data) keyed by trade_date: a new row takes the given columns
\* (the others are NULL); an existing row has the given columns overwritten.
upsert(store, table, trade_date, data) ==
    LET old == store[table]
        row == [c \in Columns(table) |->
                   IF c \in DOMAIN data THEN data[c]
                   ELSE IF trade_date \in DOMAIN old THEN old[trade_date][c]
                   ELSE NULL]
    IN  [store EXCEPT ![table] = (trade_date :> row) @@ old]

\* order("trade_date", desc=True).limit(n): the dates from d downwards
RECURSIVE LastDatesFrom(_, _, _)
LastDatesFrom(dates, d, n) ==
    IF n = 0 \/ d < 1 THEN <<>>
    ELSE IF d \in dates THEN <<d>> \o LastDatesFrom(dates, d - 1, n - 1)
    ELSE LastDatesFrom(dates, d - 1, n)

\* the trade dates of the rows fetch_last_n reads: newest first, at most n
last_n_dates(store, table, n) ==
    LET dates == DOMAIN store[table]
    IN  IF dates = {} THEN <<>>
        ELSE Strict(CHOOSE d \in dates : \A e \in dates : e <= d,
                    LAMBDA newest : LastDatesFrom(dates, newest, n))

fetch_last_n(store, table, column, n) ==
    LET ds == last_n_dates(store, table, n)
    IN  [i \in 1..Len(ds) |-> store[table][ds[i]][column]]

\* ------------------------------------------------------------------------
\* The environment: what the NSE endpoints return and what a CSV holds
\* ------------------------------------------------------------------------
FiiVals == {-6, 4, 10}          \* thousandths: 4 rounds to 0.00, 10 to 0.01
DiiVals == {5}

CashResults == {[ok |-> FALSE]}
                 \cup {[ok |-> TRUE, fii_net |-> f, dii_net |-> d] :
                          f \in FiiVals, d \in DiiVals}
FuturesResults == {[ok |-> FALSE],
                   [ok |-> TRUE, net_position |-> 3, total_oi |-> 7]}
PcrResults == {[ok |-> FALSE],
               [ok |-> TRUE, total_call_oi |-> 5, total_put_oi |-> 6, pcr |-> 12]}

\* A CSV: one row per trade date of first..last, the values following one of
\* two patterns, the rows in ascending or in a rotated order.
CsvRow(d, pattern) ==
    [trade_date |-> d,
     fii_net |-> IF (d + pattern) % 3 = 0 THEN 10 ELSE IF (d + pattern) % 3 = 1 THEN -6 ELSE 4,
     net_position |-> IF d % 2 = pattern THEN 3 ELSE -2,
     oi_change |-> (d + pattern) % 4,
     pcr |-> IF d % 5 = 0 THEN 12 ELSE 9 + pattern]

read_csv(csv) ==
    LET n == csv.last - csv.first + 1
    IN  [i \in 1..n |->
            CsvRow(CASE csv.order = "ascending" -> csv.first + i - 1
                     [] csv.order = "rotated"   -> csv.first + ((i + 1) % n),
                   csv.pattern)]

Csv(last, pattern, order) ==
    [first |-> 1, last |-> last, pattern |-> pattern, order |-> order]

Csvs == {Csv(StartDay - 6, 0, "rotated"), Csv(StartDay - 6, 1, "ascending"),
         Csv(MaxDay, 0, "ascending"), Csv(MaxDay, 1, "rotated")}

NoCsv == [first |-> 0, last |-> 0, pattern |-> 0, order |-> "none"]

\* ------------------------------------------------------------------------
\* telegram.py
\* ------------------------------------------------------------------------
\* What the environment does to one send_message call: whether the
\* credentials are configured and how many attempts fail before one succeeds.
TgFates == [creds : BOOLEAN, fails : 0..TG_RETRIES]

\* the fates a live run meets: no credentials, or so many failing attempts
LiveFates == {f \in TgFates : ~f.creds => f.fails = 0}

\* no send_message call, so no fate
NoFate == [creds |-> FALSE, fails |-> 0]

send_message_exhaust(fate, retries) ==
    IF ~fate.creds THEN [attempts |-> 0, delivered |-> FALSE]
    ELSE [attempts |-> retries, delivered |-> fate.fails < retries]

\* send_message(text, retries): the attempts made and whether one delivered
send_message(fate, retries) ==
    IF ~fate.creds THEN [attempts |-> 0, delivered |-> FALSE]
    ELSE IF fate.fails < retries
         THEN [attempts |-> fate.fails + 1, delivered |-> TRUE]
         ELSE [attempts |-> retries, delivered |-> FALSE]

\* ------------------------------------------------------------------------
\* main.py: run() and the execution wrapper
\* ------------------------------------------------------------------------
\* store calls of run(), in program order; db_fail = k makes call k raise
CALL_DUP_CHECK   == 1     \* fetch_last_n("fii_cash_raw", "fii_net", 1)
CALL_RAW_FIRST   == 2     \* upsert fii_cash_raw, dii_cash_raw,
CALL_RAW_LAST    == 5     \*   index_futures_raw, options_summary_raw
CALL_HIST_FIRST  == 6     \* the four fetch_last_n(..., 30)
CALL_HIST_LAST   == 9
CALL_PREV_IRS    == 10    \* fetch_last_n("institutional_regime", "irs", 1)
CALL_ZSCORES     == 11    \* upsert institutional_zscores
CALL_REGIME      == 12    \* upsert institutional_regime

\* the first k of a sequence of upserts <<table, data>> for one trade date
RECURSIVE ApplyUpserts(_, _, _, _)
ApplyUpserts(store, trade_date, writes, k) ==
    IF k = 0 \/ writes = <<>> THEN store
    ELSE ApplyUpserts(upsert(store, Head(writes)[1], trade_date, Head(writes)[2]),
                      trade_date, Tail(writes), k - 1)

\* fetch_institutional_cash(client) as run() calls it: no handler, so a
\* failed fetch raises out of run()
cash_or_raise_neutral(cash) ==
    IF cash.ok THEN [raised |-> FALSE, fii_net |-> cash.fii_net, dii_net |-> cash.dii_net]
    ELSE [raised |-> FALSE, fii_net |-> 0, dii_net |-> 0]
cash_or_raise(cash) ==
    IF cash.ok THEN [raised |-> FALSE, fii_net |-> cash.fii_net, dii_net |-> cash.dii_net]
    ELSE [raised |-> TRUE, fii_net |-> 0, dii_net |-> 0]

\* try: fetch_fii_futures(client) except: neutral fallback
futures_or_neutral(fut) ==
    IF fut.ok THEN [net_position |-> fut.net_position, total_oi |-> fut.total_oi]
    ELSE [net_position |-> 0, total_oi |-> 0]

\* try: fetch_index_pcr(client) except: neutral fallback
pcr_or_neutral_zero(pcr) ==
    IF pcr.ok THEN [total_call_oi |-> pcr.total_call_oi,
                    total_put_oi |-> pcr.total_put_oi, pcr_today |-> pcr.pcr]
    ELSE [total_call_oi |-> 0, total_put_oi |-> 0, pcr_today |-> 0]
pcr_or_neutral(pcr) ==
    IF pcr.ok THEN [total_call_oi |-> pcr.total_call_oi,
                    total_put_oi |-> pcr.total_put_oi, pcr_today |-> pcr.pcr]
    ELSE [total_call_oi |-> 0, total_put_oi |-> 0, pcr_today |-> PCR_NEUTRAL]

\* the duplicate check: the newest stored fii_net against the fetched one
is_unchanged(existing_today, fii_net) ==
    existing_today # <<>> /\ Round2(existing_today[1]) = Round2(fii_net)

\* min(len(cash_hist), len(pos_hist), len(oi_hist), len(pcr_hist))
min_len_of(cash_hist, pos_hist, oi_hist, pcr_hist) ==
    Min2(Min2(Len(cash_hist), Len(pos_hist)), Min2(Len(oi_hist), Len(pcr_hist)))

\* the history gate of run()
live_insufficient_inverted(min_len) == min_len > LIVE_MIN
live_insufficient(min_len) == min_len < LIVE_MIN

\* previous_irs = previous_irs_list[0] if previous_irs_list else sts
live_previous_irs(previous_irs_list, sts) ==
    IF previous_irs_list # <<>> THEN FromMilli(previous_irs_list[1]) ELSE sts

\* the outcome of a run that has not got anywhere yet
BlankRun(store, today, inp) ==
    [store |-> store, date |-> today, outcome |-> "raised", raised_in |-> "",
     cash_ok |-> inp.cash.ok, fetched |-> FALSE, fii_net |-> 0,
     fut_ok |-> FALSE, pcr_ok |-> FALSE,
     gated |-> FALSE, min_len |-> 0,
     cash_hist |-> <<>>, pos_hist |-> <<>>, oi_hist |-> <<>>, pcr_hist |-> <<>>,
     computed |-> FALSE, prev_from |-> 0, previous_irs |-> 0,
     cash_z |-> 0, position_z |-> 0, oi_z |-> 0, pcr_z |-> 0,
     futures_z |-> 0, sts |-> 0, irs |-> 0]

\* run(): inp.cash, inp.fut, inp.pcr are the results of the three NSE
\* fetches (ok = FALSE: the fetch raised), inp.db_fail the store call that
\* raises (0: none).  The *_hist fields hold the trade dates of the rows each
\* window was read from.
run(store, today, inp) ==
    LET blank == BlankRun(store, today, inp)
        cash  == cash_or_raise(inp.cash)
    IN
    IF cash.raised THEN [blank EXCEPT !.raised_in = "fetch_institutional_cash"]
    ELSE
    LET fii_net == cash.fii_net
        dii_net == cash.dii_net
        got     == [blank EXCEPT !.fetched = TRUE, !.fii_net = fii_net]
    IN
    IF inp.db_fail = CALL_DUP_CHECK THEN [got EXCEPT !.raised_in = "store"]
    ELSE
    LET existing_today == fetch_last_n(store, "fii_cash_raw", "fii_net", 1)
    IN
    IF is_unchanged(existing_today, fii_net)
    THEN [got EXCEPT !.outcome = "unchanged"]
    ELSE
    LET futures       == futures_or_neutral(inp.fut)
        options       == pcr_or_neutral(inp.pcr)
        net_position  == futures.net_position
        total_oi      == futures.total_oi
        total_call_oi == options.total_call_oi
        total_put_oi  == options.total_put_oi
        pcr_today     == options.pcr_today
        raw == << <<"fii_cash_raw", [fii_net |-> fii_net]>>,
                  <<"dii_cash_raw", [dii_net |-> dii_net]>>,
                  <<"index_futures_raw", [net_position |-> net_position,
                                          oi |-> total_oi, oi_change |-> total_oi]>>,
                  <<"options_summary_raw", [total_call_oi |-> total_call_oi,
                                            total_put_oi |-> total_put_oi,
                                            pcr |-> pcr_today]>> >>
    IN
    IF inp.db_fail \in CALL_RAW_FIRST..CALL_RAW_LAST
    THEN [got EXCEPT !.raised_in = "store",
                     !.store = ApplyUpserts(store, today, raw,
                                            inp.db_fail - CALL_RAW_FIRST)]
    ELSE
    LET s1   == ApplyUpserts(store, today, raw, 4)
        kept == [got EXCEPT !.store = s1, !.fut_ok = inp.fut.ok, !.pcr_ok = inp.pcr.ok]
    IN
    IF inp.db_fail \in CALL_HIST_FIRST..CALL_HIST_LAST
    THEN [kept EXCEPT !.raised_in = "store"]
    ELSE
    LET cash_hist == fetch_last_n(s1, "fii_cash_raw", "fii_net", HISTORY_N)
        pos_hist  == fetch_last_n(s1, "index_futures_raw", "net_position", HISTORY_N)
        oi_hist   == fetch_last_n(s1, "index_futures_raw", "oi_change", HISTORY_N)
        pcr_hist  == fetch_last_n(s1, "options_summary_raw", "pcr", HISTORY_N)
        min_len   == min_len_of(cash_hist, pos_hist, oi_hist, pcr_hist)
        gate      == [kept EXCEPT
                        !.gated = TRUE, !.min_len = min_len,
                        !.cash_hist = last_n_dates(s1, "fii_cash_raw", HISTORY_N),
                        !.pos_hist = last_n_dates(s1, "index_futures_raw", HISTORY_N),
                        !.oi_hist = last_n_dates(s1, "index_futures_raw", HISTORY_N),
                        !.pcr_hist = last_n_dates(s1, "options_summary_raw", HISTORY_N)]
    IN
    IF live_insufficient(min_len) THEN [gate EXCEPT !.outcome = "insufficient"]
    ELSE
    LET cash_z     == calculate_z_score(fii_net, cash_hist)
        position_z == calculate_z_score(net_position, pos_hist)
        oi_z       == calculate_z_score(total_oi, oi_hist)
        pcr_z      == calculate_z_score(pcr_today, pcr_hist)
        futures_z  == calculate_futures_z(position_z, oi_z)
        sts        == calculate_sts(futures_z, cash_z, pcr_z)
    IN
    IF inp.db_fail = CALL_PREV_IRS THEN [gate EXCEPT !.raised_in = "store"]
    ELSE
    LET previous_irs_list == fetch_last_n(s1, "institutional_regime", "irs", 1)
        previous_irs == live_previous_irs(previous_irs_list, sts)
        irs   == calculate_ema(sts, previous_irs, EMA_PERIOD)
        phase == classify_phase(irs)
        derived == << <<"institutional_zscores",
                        [cash_z |-> Round3(cash_z), futures_z |-> Round3(futures_z),
                         pcr_z |-> Round3(pcr_z), sts |-> Round3(sts)]>>,
                      <<"institutional_regime",
                        [sts |-> Round3(sts), irs |-> Round3(irs),
                         market_phase |-> phase]>> >>
        calc == [gate EXCEPT
                    !.computed = TRUE,
                    !.prev_from = IF previous_irs_list # <<>>
                                  THEN last_n_dates(s1, "institutional_regime", 1)[1]
                                  ELSE 0,
                    !.previous_irs = previous_irs,
                    !.cash_z = cash_z, !.position_z = position_z, !.oi_z = oi_z,
                    !.pcr_z = pcr_z, !.futures_z = futures_z,
                    !.sts = sts, !.irs = irs]
    IN
    IF inp.db_fail \in {CALL_ZSCORES, CALL_REGIME}
    THEN [calc EXCEPT !.raised_in = "store",
                      !.store = ApplyUpserts(s1, today, derived,
                                             inp.db_fail - CALL_ZSCORES)]
    ELSE [calc EXCEPT !.outcome = "done",
                      !.store = ApplyUpserts(s1, today, derived, 2)]

\* python main.py: the execution wrapper around a run() that ended as r.  A
\* finished run has sent the report as its last step; for a run that raised
\* the wrapper sends the failure text.
main_silent(r, fate) ==
    LET kind == IF r.outcome = "done" THEN "report" ELSE "none"
        tg   == IF kind = "none" THEN [attempts |-> 0, delivered |-> FALSE]
                ELSE send_message(fate, TG_RETRIES)
    IN  [op |-> "live", run |-> [r EXCEPT !.store = <<>>],
         message |-> kind, fate |-> IF kind = "none" THEN NoFate ELSE fate,
         attempts |-> tg.attempts, delivered |-> tg.delivered]

main(r, fate) ==
    LET kind == IF r.outcome = "done" THEN "report"
                ELSE IF r.outcome = "raised" THEN "failure"
                ELSE "none"
        tg   == IF kind = "none" THEN [attempts |-> 0, delivered |-> FALSE]
                ELSE send_message(fate, TG_RETRIES)
    IN  [op |-> "live", run |-> [r EXCEPT !.store = <<>>],
         message |-> kind, fate |-> IF kind = "none" THEN NoFate ELSE fate,
         attempts |-> tg.attempts, delivered |-> tg.delivered]

\* ------------------------------------------------------------------------
\* backfill.py
\* ------------------------------------------------------------------------
\* df.sort_values("trade_date"): the row of rank i goes to position i
sort_values_unsorted(df) == df
sort_values(df) ==
    LET n == Len(df)
        rank(j) == Cardinality({k \in 1..n : df[k].trade_date < df[j].trade_date})
    IN  [i \in 1..n |-> df[CHOOSE j \in 1..n : rank(j) = i - 1]]

NoIrs == [some |-> FALSE, v |-> 0]     \* previous_irs = None
SomeIrs(x) == [some |-> TRUE, v |-> x]

\* the history gate of backfill_from_csv
backfill_insufficient(min_len) == min_len < BACKFILL_MIN

\* irs = sts if previous_irs is None else calculate_ema(sts, previous_irs)
backfill_irs(sts, previous_irs) ==
    IF ~previous_irs.some THEN sts
    ELSE calculate_ema(sts, previous_irs.v, EMA_PERIOD)

\* one iteration of the loop of backfill_from_csv over a row of the frame
backfill_row(store, previous_irs, row) ==
    LET trade_date == row.trade_date
        raw == << <<"fii_cash_raw", [fii_net |-> row.fii_net]>>,
                  <<"index_futures_raw", [net_position |-> row.net_position,
                                          oi |-> row.oi_change,
                                          oi_change |-> row.oi_change]>>,
                  <<"options_summary_raw", [total_call_oi |-> 0, total_put_oi |-> 0,
                                            pcr |-> row.pcr]>> >>
        s1        == ApplyUpserts(store, trade_date, raw, 3)
        cash_hist == fetch_last_n(s1, "fii_cash_raw", "fii_net", HISTORY_N)
        pos_hist  == fetch_last_n(s1, "index_futures_raw", "net_position", HISTORY_N)
        oi_hist   == fetch_last_n(s1, "index_futures_raw", "oi_change", HISTORY_N)
        pcr_hist  == fetch_last_n(s1, "options_summary_raw", "pcr", HISTORY_N)
        min_len   == min_len_of(cash_hist, pos_hist, oi_hist, pcr_hist)
        seen == [date |-> trade_date, outcome |-> "insufficient", min_len |-> min_len,
                 cash_hist |-> last_n_dates(s1, "fii_cash_raw", HISTORY_N),
                 pos_hist |-> last_n_dates(s1, "index_futures_raw", HISTORY_N),
                 oi_hist |-> last_n_dates(s1, "index_futures_raw", HISTORY_N),
                 pcr_hist |-> last_n_dates(s1, "options_summary_raw", HISTORY_N),
                 carried |-> previous_irs,
                 cash_z |-> 0, position_z |-> 0, oi_z |-> 0, pcr_z |-> 0,
                 futures_z |-> 0, sts |-> 0, irs |-> 0]
    IN
    IF backfill_insufficient(min_len)
    THEN [store |-> s1, previous_irs |-> previous_irs, seen |-> seen]
    ELSE
    LET cash_z     == calculate_z_score(row.fii_net, cash_hist)
        position_z == calculate_z_score(row.net_position, pos_hist)
        oi_z       == calculate_z_score(row.oi_change, oi_hist)
        pcr_z      == calculate_z_score(row.pcr, pcr_hist)
        futures_z  == calculate_futures_z(position_z, oi_z)
        sts        == calculate_sts(futures_z, cash_z, pcr_z)
        irs        == backfill_irs(sts, previous_irs)
        bias       == classify_bias(sts)
        phase      == classify_phase(irs)
        derived == << <<"institutional_zscores",
                        [cash_z |-> Round3(cash_z), futures_z |-> Round3(futures_z),
                         pcr_z |-> Round3(pcr_z), sts |-> Round3(sts)]>>,
                      <<"institutional_regime",
                        [sts |-> Round3(sts), irs |-> Round3(irs),
                         market_phase |-> phase, tomorrow_bias |-> bias]>> >>
    IN  [store |-> ApplyUpserts(s1, trade_date, derived, 2),
         previous_irs |-> SomeIrs(irs),
         seen |-> [seen EXCEPT !.outcome = "done",
                               !.cash_z = cash_z, !.position_z = position_z,
                               !.oi_z = oi_z, !.pcr_z = pcr_z,
                               !.futures_z = futures_z, !.sts = sts, !.irs = irs]]

\* the state of the loop of backfill_from_csv before its first iteration;
\* log collects what each iteration saw, in the order of the iterations
LoopStart(store) == [store |-> store, previous_irs |-> NoIrs, log |-> <<>>]

\* the iterations of the loop of backfill_from_csv over the rows df[lo..hi],
\* one after the other, from the loop state st
RECURSIVE backfill_loop(_, _, _, _)
backfill_loop(st, df, lo, hi) ==
    IF lo > hi THEN st
    ELSE IF lo = hi
    THEN Strict(backfill_row(st.store, st.previous_irs, df[lo]),
                LAMBDA r : [store |-> r.store, previous_irs |-> r.previous_irs,
                            log |-> Append(st.log, r.seen)])
    ELSE Strict(backfill_loop(st, df, lo, (lo + hi) \div 2),
                LAMBDA half : backfill_loop(half, df, (lo + hi) \div 2 + 1, hi))

backfill_from_csv(store, csv) ==
    Strict(sort_values(read_csv(csv)),
           LAMBDA df : backfill_loop(LoopStart(store), df, 1, Len(df)))

\* ------------------------------------------------------------------------
\* seed_neutral_history.py
\* ------------------------------------------------------------------------
weekday_always(d) == 0

weekday(d) == d % 7

\* the trade dates seed_neutral_history writes, in the order of its loop
seed_order(today, days) ==
    SelectSeq([i \in 1..days |-> today - days + (i - 1)],
              LAMBDA trade_date : weekday(trade_date) < 5)

\* the loop of seed_neutral_history from iteration i on
RECURSIVE seed_from(_, _, _, _, _)
seed_from(store, start_date, i, days, previous_irs) ==
    IF i >= days THEN store
    ELSE
    LET trade_date == start_date + i
    IN  IF weekday(trade_date) >= 5
        THEN seed_from(store, start_date, i + 1, days, previous_irs)
        ELSE
        LET sts   == 0
            irs   == calculate_ema(sts, previous_irs, EMA_PERIOD)
            bias  == classify_bias(sts)
            phase == classify_phase(irs)
            rows  == << <<"fii_cash_raw", [fii_net |-> 0]>>,
                        <<"index_futures_raw",
                          [net_position |-> 0, oi |-> 0, oi_change |-> 0]>>,
                        <<"options_summary_raw",
                          [total_call_oi |-> 0, total_put_oi |-> 0,
                           pcr |-> PCR_NEUTRAL]>>,
                        <<"institutional_zscores",
                          [cash_z |-> 0, futures_z |-> 0, pcr_z |-> 0, sts |-> 0]>>,
                        <<"institutional_regime",
                          [sts |-> 0, irs |-> Round3(irs), market_phase |-> phase,
                           tomorrow_bias |-> bias]>> >>
        IN  Strict(ApplyUpserts(store, trade_date, rows, 5),
                   LAMBDA s : seed_from(s, start_date, i + 1, days, irs))

seed_neutral_history(store, today, days) ==
    seed_from(store, today - days, 0, days, 0)

\* ------------------------------------------------------------------------
\* State
\* ------------------------------------------------------------------------
VARIABLES
    db,       \* the store: table -> trade date -> row
    today,    \* datetime.date.today()
    runs,     \* live and backfill runs started so far
    seeds,    \* seeding runs so far
    faults,   \* store calls that have raised so far
    lived,    \* a live run has been made
    last,     \* what the last run did: its inputs, windows, results
    twin      \* the replay side of a live/replay comparison: the same
              \* observations as a CSV, and the store backfilled from it

vars == <<db, today, runs, seeds, faults, lived, last, twin>>

NoTwin == [rows |-> <<>>, store |-> EmptyStore]

Init ==
    /\ db = EmptyStore
    /\ today = StartDay
    /\ runs = 0
    /\ seeds = 0
    /\ faults = 0
    /\ lived = FALSE
    /\ last = [op |-> "none"]
    /\ twin = NoTwin

\* ------------------------------------------------------------------------
\* Actions
\* ------------------------------------------------------------------------
\* a day passes
Tick ==
    /\ today < MaxDay
    /\ today' = today + 1
    /\ UNCHANGED <<db, runs, seeds, faults, lived, last, twin>>

\* the store calls a run that ended as r has made
CallsMade(r) ==
    IF ~r.fetched THEN 0
    ELSE IF r.outcome = "unchanged" THEN CALL_DUP_CHECK
    ELSE IF r.outcome = "insufficient" THEN CALL_HIST_LAST
    ELSE CALL_REGIME

\* python main.py
Live ==
    /\ runs < MaxRuns
    /\ \E cash \in CashResults :
       \E fut \in IF cash.ok THEN FuturesResults ELSE {[ok |-> FALSE]},
          pcr \in IF cash.ok THEN PcrResults ELSE {[ok |-> FALSE]} :
       \E r0 \in {run(db, today, [cash |-> cash, fut |-> fut, pcr |-> pcr,
                                  db_fail |-> 0])} :
       \* one of the store calls the run makes may raise
       \E db_fail \in IF faults < MaxFaults THEN 0..CallsMade(r0) ELSE {0} :
       \E r \in {IF db_fail = 0 THEN r0
                  ELSE run(db, today, [cash |-> cash, fut |-> fut, pcr |-> pcr,
                                       db_fail |-> db_fail])} :
       \E fate \in LiveFates :
          /\ db' = r.store
          /\ last' = main(r, fate)
          /\ faults' = IF db_fail # 0 THEN faults + 1 ELSE faults
    /\ runs' = runs + 1
    /\ lived' = TRUE
    /\ UNCHANGED <<today, seeds, twin>>

\* python seed_neutral_history.py
Seed ==
    /\ seeds < MaxSeeds
    /\ today > SEED_DAYS
    /\ db' = seed_neutral_history(db, today, SEED_DAYS)
    /\ last' = [op |-> "seed", date |-> today]
    /\ seeds' = seeds + 1
    /\ UNCHANGED <<today, runs, faults, lived, twin>>

\* python backfill.py; the history is backfilled before the engine goes live
Backfill ==
    /\ runs < MaxRuns
    /\ ~lived
    /\ \E csv \in Csvs :
       \E r \in {backfill_from_csv(db, csv)} :
          /\ db' = r.store
          /\ last' = [op |-> "backfill", csv |-> csv, log |-> r.log]
    /\ runs' = runs + 1
    /\ UNCHANGED <<today, seeds, faults, lived, twin>>

Next == Tick \/ Live \/ Seed \/ Backfill

Spec == Init /\ [][Next]_vars

\* ------------------------------------------------------------------------
\* Live against replay: the same observations, one date at a time through
\* run() and as one CSV through backfill_from_csv, from the same store
\* ------------------------------------------------------------------------
\* the store the comparison starts from: python seed_neutral_history.py
SeededStore == seed_neutral_history(EmptyStore, StartDay, SEED_DAYS)

\* a day's observation (fii_net, net_position, oi_change, pcr)
Observations == [fii_net : FiiVals, net_position : {-2, 3}, oi_change : {7},
                 pcr : {9, 12}]

\* the observation as run() fetches it
AsFetched(obs) ==
    [cash |-> [ok |-> TRUE, fii_net |-> obs.fii_net, dii_net |-> 5],
     fut  |-> [ok |-> TRUE, net_position |-> obs.net_position,
               total_oi |-> obs.oi_change],
     pcr  |-> [ok |-> TRUE, total_call_oi |-> 5, total_put_oi |-> 6,
               pcr |-> obs.pcr],
     db_fail |-> 0]

\* the observation as a row of the CSV
AsCsvRow(d, obs) ==
    [trade_date |-> d, fii_net |-> obs.fii_net, net_position |-> obs.net_position,
     oi_change |-> obs.oi_change, pcr |-> obs.pcr]

ReplayInit ==
    /\ db = SeededStore
    /\ today = StartDay
    /\ runs = 0
    /\ seeds = 0
    /\ faults = 0
    /\ lived = FALSE
    /\ last = [op |-> "none"]
    /\ twin = [rows |-> <<>>, store |-> SeededStore]

\* the day's observation goes through run() on the live side and is added to
\* the CSV on the replay side, over which backfill_from_csv is run afresh
Feed ==
    /\ runs < MaxRuns
    /\ \E obs \in Observations :
       \E r \in {run(db, today, AsFetched(obs))} :
       \E rows \in {Append(twin.rows, AsCsvRow(today, obs))} :
       \E b \in {backfill_loop(LoopStart(SeededStore), sort_values(rows),
                                 1, Len(rows))} :
          /\ db' = r.store
          /\ twin' = [rows |-> rows, store |-> b.store]
          /\ last' = [op |-> "feed", date |-> today, outcome |-> r.outcome]
    /\ today' = today + 1
    /\ runs' = runs + 1
    /\ lived' = TRUE
    /\ UNCHANGED <<seeds, faults>>

ReplayNext == Feed

SpecReplay == ReplayInit /\ [][ReplayNext]_vars

\* ------------------------------------------------------------------------
\* The EMA bootstrap on Python floats: the irs of the first date with derived
\* output, for an sts of so many hundredths
\* ------------------------------------------------------------------------
\* run() on an empty institutional_regime
LiveBootstrap ==
    /\ last.op = "none"
    /\ \E cents \in -MaxStsCents..MaxStsCents :
       \E sts \in {F64Ratio(cents, 100)} :
       \E previous_irs \in {live_previous_irs(<<>>, sts)} :
          last' = [op |-> "bootstrap", path |-> "live", cents |-> cents, sts |-> sts,
                   irs |-> calculate_ema_binary64(sts, previous_irs, EMA_PERIOD)]
    /\ UNCHANGED <<db, today, runs, seeds, faults, lived, twin>>

\* backfill_from_csv at its first row past the history gate
BackfillBootstrap ==
    /\ last.op = "none"
    /\ \E cents \in -MaxStsCents..MaxStsCents :
       \E sts \in {F64Ratio(cents, 100)} :
          last' = [op |-> "bootstrap", path |-> "backfill", cents |-> cents,
                   sts |-> sts, irs |-> backfill_irs(sts, NoIrs)]
    /\ UNCHANGED <<db, today, runs, seeds, faults, lived, twin>>

BootstrapNext == LiveBootstrap \/ BackfillBootstrap

SpecBootstrap == Init /\ [][BootstrapNext]_vars

\* ------------------------------------------------------------------------
\* The classifiers on their own: both labels of a score of so many hundredths
\* ------------------------------------------------------------------------
Classify ==
    /\ \E cents \in -MaxScoreCents..MaxScoreCents :
       \E score \in {cents * (Unit \div 100)} :
          last' = [op |-> "classify", cents |-> cents,
                   bias |-> classify_bias(score), phase |-> classify_phase(score)]
    /\ UNCHANGED <<db, today, runs, seeds, faults, lived, twin>>

ClassifyNext == Classify

SpecClassify == Init /\ [][ClassifyNext]_vars

\* ------------------------------------------------------------------------
\* calculate_z_score on its own, on Python floats: a value and a history of
\* one to MaxHist values, each of so many hundredths
\* ------------------------------------------------------------------------
ValueCents == {-10, 0, 10, 30, 70}

Histories == UNION {[1..n -> ValueCents] : n \in 1..MaxHist}

ZScore ==
    /\ last.op = "none"
    /\ \E cents \in ValueCents, history \in Histories :
       \E today_value \in {F64Ratio(cents, 100)} :
       \E historical_values \in
             {SubSeq([i \in 1..Len(history) |-> F64Ratio(history[i], 100)],
                     1, Len(history))} :
          last' = [op |-> "zscore", cents |-> cents, history |-> history,
                   z |-> calculate_z_score_binary64(today_value, historical_values)]
    /\ UNCHANGED <<db, today, runs, seeds, faults, lived, twin>>

ZScoreNext == ZScore

SpecZScore == Init /\ [][ZScoreNext]_vars

\* ------------------------------------------------------------------------
\* fetch_nse.py: NSEClient.get_json.  What one request attempt meets:
\*   "json"     a JSON response                       -> parsed and returned
\*   "untyped"  parsable JSON under another Content-Type -> parsed and returned
\*   "blocked"  status 403 or 429                     -> RuntimeError
\*   "status"   another error status                  -> raise_for_status raises
\*   "timeout"  session.get raises                    -> that exception
\*   "html"     a body that is not JSON               -> RuntimeError
\* Times are in tenths of a second.
\* ------------------------------------------------------------------------
Responses == {"json", "untyped", "blocked", "status", "timeout", "html"}

Parsable == {"json", "untyped"}

Jitters == {0, 2, 4}        \* random.uniform(0.0, 0.4)

NoErr == [kind |-> "none", attempt |-> 0]

backoff_flat(delay) == delay

\* delay *= 2
backoff(delay) == delay * 2

\* the for loop of get_json from attempt on; responses[k] is what attempt k
\* meets, jitters[k] the jitter drawn after it
RECURSIVE get_json_from(_, _, _, _, _, _)
get_json_from(attempt, delay, last_err, slept, responses, jitters) ==
    IF attempt > MAX_RETRIES
    THEN [attempts |-> attempt - 1, returned |-> 0, raised |-> last_err,
          slept |-> slept]
    ELSE IF responses[attempt] \in Parsable
    THEN [attempts |-> attempt, returned |-> attempt, raised |-> NoErr,
          slept |-> slept]
    ELSE
    LET e == [kind |-> responses[attempt], attempt |-> attempt]
    IN  IF attempt = MAX_RETRIES
        THEN [attempts |-> attempt, returned |-> 0, raised |-> e, slept |-> slept]
        ELSE get_json_from(attempt + 1, backoff(delay), e,
                           Append(slept, delay + jitters[attempt]),
                           responses, jitters)

\* get_json(path): the attempts made, the attempt whose parsed body was
\* returned (0: none), the exception raised, and the sleeps in order
get_json(responses, jitters) ==
    get_json_from(1, INITIAL_DELAY_SEC, NoErr, <<>>, responses, jitters)

GetJson ==
    /\ last.op = "none"
    /\ \E responses \in [1..MAX_RETRIES -> Responses],
          jitters \in [1..(MAX_RETRIES - 1) -> Jitters] :
          last' = [op |-> "get_json", responses |-> responses, jitters |-> jitters,
                   result |-> get_json(responses, jitters)]
    /\ UNCHANGED <<db, today, runs, seeds, faults, lived, twin>>

GetJsonNext == GetJson

SpecGetJson == Init /\ [][GetJsonNext]_vars

\* ------------------------------------------------------------------------
\* Going live on a seeded store: seed_neutral_history runs on the empty
\* store on any day of a week, live runs follow on the same day
\* ------------------------------------------------------------------------
SeedInit ==
    /\ db = EmptyStore
    /\ today \in (SEED_DAYS + 1)..(SEED_DAYS + 7)
    /\ runs = 0
    /\ seeds = 0
    /\ faults = 0
    /\ lived = FALSE
    /\ last = [op |-> "none"]
    /\ twin = NoTwin

SeedFirst == db = EmptyStore /\ Seed

LiveSeeded == seeds = 1 /\ Live

SeedNext == SeedFirst \/ LiveSeeded

SpecSeed == SeedInit /\ [][SeedNext]_vars

\* ------------------------------------------------------------------------
\* Properties
\* ------------------------------------------------------------------------
MaxOf(S) == CHOOSE x \in S : \A y \in S : y <= x

\* the four windows of trade dates a run or an iteration scored against
WindowsOf(seen) == {seen.cash_hist, seen.pos_hist, seen.oi_hist, seen.pcr_hist}

OnlyEarlierDates(seen) ==
    \A w \in WindowsOf(seen) : \A i \in 1..Len(w) : w[i] < seen.date

\* the iterations of a backfill that produced derived output
DoneRows(log) == {i \in 1..Len(log) : log[i].outcome = "done"}

\* the derived record of a date, or none
DerivedOf(store, table, d) ==
    IF d \in DOMAIN store[table] THEN <<store[table][d]>> ELSE <<>>

\* C1, as claimed: the history handed to calculate_z_score for a trade date
\* never holds that date's own observation; every window holds only strictly
\* earlier trade dates, in the live run and in every backfill iteration.
C1_HistoryExcludesOwnDate ==
    /\ (last.op = "live" /\ last.run.gated /\ last.run.min_len >= 20)
          => OnlyEarlierDates(last.run)
    /\ last.op = "backfill"
          => \A i \in DoneRows(last.log) : OnlyEarlierDates(last.log[i])

\* C2, as claimed: the previous_ema a live run hands to calculate_ema for
\* trade date t is the irs persisted for the latest trade date strictly
\* earlier than t, also when a regime record for t already exists.
C2_PreviousIrsOfEarlierDate ==
    (last.op = "live" /\ last.run.computed) =>
        LET t       == last.run.date
            regime  == db["institutional_regime"]
            earlier == {d \in DOMAIN regime : d < t}
        IN  earlier # {} =>
                last.run.previous_irs = FromMilli(regime[MaxOf(earlier)].irs)

\* C3, as claimed: a live run whose fetched fii_net equals, rounded to two
\* decimals, the newest persisted fii_net skips only the notification; the
\* date's raw and derived records are in the store after that run.
C3_SuppressedRunStillPersists ==
    (last.op = "live" /\ last.run.outcome = "unchanged") =>
        LET t == last.run.date
            RawTables == {"fii_cash_raw", "dii_cash_raw", "index_futures_raw",
                          "options_summary_raw"}
        IN  /\ \A table \in RawTables : t \in DOMAIN db[table]
            /\ Round2(db["fii_cash_raw"][t].fii_net) = Round2(last.run.fii_net)
            \* derived records are due once the history gate is passed
            /\ (\A table \in RawTables : Cardinality(DOMAIN db[table]) >= 20)
                  => /\ t \in DOMAIN db["institutional_zscores"]
                     /\ t \in DOMAIN db["institutional_regime"]

\* C4: when the shortest of the four windows is below the minimum (20 in
\* run(), 30 in backfill_from_csv), the date's raw records are persisted, no
\* derived record is written or changed, nothing is sent, and the run
\* returns, or goes on to the next date, without raising.
C4_InsufficientHistory ==
    [][ /\ (last'.op = "live" /\ runs' = runs + 1
              /\ last'.run.gated /\ last'.run.min_len < 20) =>
            LET t == last'.run.date
            IN  /\ \A table \in {"fii_cash_raw", "dii_cash_raw", "index_futures_raw",
                                 "options_summary_raw"} : t \in DOMAIN db'[table]
                /\ db'["fii_cash_raw"][t].fii_net = last'.run.fii_net
                /\ db'["institutional_zscores"] = db["institutional_zscores"]
                /\ db'["institutional_regime"] = db["institutional_regime"]
                /\ last'.message = "none" /\ last'.attempts = 0
                /\ last'.run.outcome # "raised" /\ last'.run.raised_in = ""
        /\ (last'.op = "backfill" /\ runs' = runs + 1) =>
            /\ Len(last'.log) = last'.csv.last - last'.csv.first + 1
            /\ \A i \in 1..Len(last'.log) : last'.log[i].min_len < 30 =>
                LET d == last'.log[i].date
                IN  /\ \A table \in {"fii_cash_raw", "index_futures_raw",
                                     "options_summary_raw"} : d \in DOMAIN db'[table]
                    /\ db'["fii_cash_raw"][d].fii_net
                          = CsvRow(d, last'.csv.pattern).fii_net
                    /\ \A table \in {"institutional_zscores", "institutional_regime"} :
                          DerivedOf(db', table, d) = DerivedOf(db, table, d)
      ]_vars

C4_Witness ==
    /\ last.op = "live" /\ last.run.gated
    /\ last.run.min_len >= 1 /\ last.run.min_len < 20
    /\ last.run.date \in DOMAIN db["options_summary_raw"]

\* C5, as claimed: a second backfill_from_csv over the same CSV leaves
\* institutional_zscores and institutional_regime exactly as the first left
\* them.
C5_BackfillRerunIdempotent ==
    [][ (last.op = "backfill" /\ last'.op = "backfill" /\ runs' = runs + 1
            /\ last'.csv = last.csv) =>
          /\ db'["institutional_zscores"] = db["institutional_zscores"]
          /\ db'["institutional_regime"] = db["institutional_regime"] ]_vars

\* C6, as claimed: the live side and the replay side, fed the same
\* observations from the same store, hold derived records for the same dates
\* with the same z-scores, sts, irs and market_phase.
C6_LiveMatchesReplay ==
    LET live   == db
        replay == twin.store
    IN  /\ live["institutional_zscores"] = replay["institutional_zscores"]
        /\ DOMAIN live["institutional_regime"] = DOMAIN replay["institutional_regime"]
        /\ \A d \in DOMAIN live["institutional_regime"] :
             LET a == live["institutional_regime"][d]
                 b == replay["institutional_regime"][d]
             IN  a.sts = b.sts /\ a.irs = b.irs /\ a.market_phase = b.market_phase

\* C7: a backfill works through the trade dates of the CSV in strictly
\* ascending order whatever the order of its rows, and every date with derived
\* output after the first such date has irs = calculate_ema(sts, the irs
\* computed for the preceding such date), carried unrounded in memory.
C7_BackfillAscendingCarry ==
    last.op = "backfill" =>
        LET log  == last.log
            done == DoneRows(log)
        IN  /\ \A i, j \in 1..Len(log) : i < j => log[i].date < log[j].date
            /\ {log[i].date : i \in 1..Len(log)} = last.csv.first..last.csv.last
            /\ \A j \in done : (\E i \in done : i < j) =>
                 LET p == MaxOf({i \in done : i < j})
                 IN  /\ log[j].carried = SomeIrs(log[p].irs)
                     /\ log[j].irs = calculate_ema(log[j].sts, log[p].irs, 10)

C7_Witness ==
    /\ last.op = "backfill" /\ last.csv.order = "rotated"
    /\ \E i, j \in DoneRows(last.log) :
          /\ i < j
          /\ last.log[j].irs # last.log[j].sts
          /\ FromMilli(Round3(last.log[i].irs)) # last.log[i].irs

\* C8, as claimed: when no irs exists yet (an empty institutional_regime
\* for a live run, the first date with derived output of a backfill), the
\* computed irs equals that date's sts exactly.
C8_BootstrapIrsIsSts ==
    last.op = "bootstrap" => last.irs = last.sts

\* C9: every persisted institutional_zscores record has cash_z, futures_z,
\* pcr_z and sts within [-3, 3].
C9_PersistedScoresBounded ==
    \A d \in DOMAIN db["institutional_zscores"] :
        LET row == db["institutional_zscores"][d]
        IN  \A x \in {row.cash_z, row.futures_z, row.pcr_z, row.sts} :
                -3 * Milli <= x /\ x <= 3 * Milli

C9_Witness ==
    \E d \in DOMAIN db["institutional_zscores"] :
        LET row == db["institutional_zscores"][d]
        IN  Abs(row.cash_z) = 3 * Milli /\ row.sts # 0 /\ Abs(row.sts) < 3 * Milli

\* C10: a live run whose cash-flow fetch fails aborts with the error raised
\* to its caller, and no table is written or changed.
C10_CashFailureAborts ==
    [][ (last'.op = "live" /\ runs' = runs + 1 /\ ~last'.run.cash_ok) =>
          /\ db' = db
          /\ last'.run.outcome = "raised"
          /\ last'.run.raised_in = "fetch_institutional_cash" ]_vars

C10_Witness ==
    /\ last.op = "live" /\ ~last.run.cash_ok
    /\ db["fii_cash_raw"] # <<>>

\* C11: a live run whose futures fetch fails goes on with net_position = 0
\* and total_oi = 0, one whose PCR fetch fails with pcr = 1 and call/put OI 0;
\* in either case it does not abort: it persists the date's raw records with
\* those defaults and evaluates the history gate.
C11_DegradedButContinue ==
    last.op = "live" =>
        LET r == last.run
            t == last.run.date
        IN  /\ (r.cash_ok /\ r.outcome # "unchanged" /\ r.raised_in = "")
                  => r.gated /\ r.outcome \in {"insufficient", "done"}
            /\ r.gated =>
                  /\ \A table \in {"fii_cash_raw", "dii_cash_raw", "index_futures_raw",
                                   "options_summary_raw"} : t \in DOMAIN db[table]
                  /\ ~r.fut_ok =>
                        db["index_futures_raw"][t]
                           = [net_position |-> 0, oi |-> 0, oi_change |-> 0]
                  /\ ~r.pcr_ok =>
                        db["options_summary_raw"][t]
                           = [total_call_oi |-> 0, total_put_oi |-> 0, pcr |-> 10]

C11_Witness ==
    /\ last.op = "live" /\ last.run.outcome = "done"
    /\ ~last.run.fut_ok /\ ~last.run.pcr_ok
    /\ last.run.pcr_z # 0

\* C12, as claimed: every institutional_regime record carries market_phase
\* = classify_phase of its stored irs and tomorrow_bias = classify_bias of
\* its stored sts.
C12_LabelsMatchStoredScores ==
    \A d \in DOMAIN db["institutional_regime"] :
        LET row == db["institutional_regime"][d]
        IN  /\ row.market_phase = classify_phase(FromMilli(row.irs))
            /\ row.tomorrow_bias = classify_bias(FromMilli(row.sts))

\* C13: classify_bias and classify_phase label every score by the table
\* sts > 2 Strong Bullish, 1 < sts <= 2 Bullish, sts < -2 Strong Bearish,
\* -2 <= sts < -1 Bearish, otherwise Neutral; irs > 1.5 Accumulation,
\* 0.5 < irs <= 1.5 Bullish Bias, irs < -1.5 Distribution,
\* -1.5 <= irs < -0.5 Bearish Bias, otherwise Transition.
C13_ClassifierTable ==
    last.op = "classify" =>
        LET c == last.cents
        IN  /\ last.bias = "Strong Bullish" <=> c > 200
            /\ last.bias = "Bullish" <=> (100 < c /\ c <= 200)
            /\ last.bias = "Strong Bearish" <=> c < -200
            /\ last.bias = "Bearish" <=> (-200 <= c /\ c < -100)
            /\ last.bias = "Neutral" <=> (-100 <= c /\ c <= 100)
            /\ last.phase = "Accumulation" <=> c > 150
            /\ last.phase = "Bullish Bias" <=> (50 < c /\ c <= 150)
            /\ last.phase = "Distribution" <=> c < -150
            /\ last.phase = "Bearish Bias" <=> (-150 <= c /\ c < -50)
            /\ last.phase = "Transition" <=> (-50 <= c /\ c <= 50)

C13_Witness ==
    /\ last.op = "classify" /\ last.cents = 200
    /\ last.bias = "Bullish" /\ last.phase = "Accumulation"

\* C14, as claimed: calculate_z_score returns 0 when all history values are
\* equal, and a result in [-3, 3] for every value and non-empty history,
\* whatever the history's length.
C14_ZScoreOfHistory ==
    last.op = "zscore" =>
        /\ (\A i \in 1..Len(last.history) : last.history[i] = last.history[1])
              => F64IsZero(last.z)
        /\ ~F64Lt(F64Ratio(3, 1), last.z)
        /\ ~F64Lt(last.z, F64Ratio(-3, 1))

\* the stored values of a column at the trade dates of a window
ValuesAt(table, column, dates) ==
    [i \in 1..Len(dates) |-> db[table][dates[i]][column]]

\* the weights of the two blends (in units of 10^-4), applied to the z-scores
\* a run computed
Blended(seen) ==
    /\ seen.futures_z = FMul(seen.position_z, 6000) + FMul(seen.oi_z, 4000)
    /\ seen.sts = Max2(Min2(FMul(seen.futures_z, 5000) + FMul(seen.cash_z, 3000)
                                + FMul(seen.pcr_z, 2000), 3 * Unit), -3 * Unit)

\* each z-score is the one of the date's stored observation of its own
\* signal against the window of that signal
BoundToSignals(seen) ==
    LET t == seen.date
    IN  /\ seen.cash_z = calculate_z_score(
                db["fii_cash_raw"][t].fii_net,
                ValuesAt("fii_cash_raw", "fii_net", seen.cash_hist))
        /\ seen.position_z = calculate_z_score(
                db["index_futures_raw"][t].net_position,
                ValuesAt("index_futures_raw", "net_position", seen.pos_hist))
        /\ seen.oi_z = calculate_z_score(
                db["index_futures_raw"][t].oi_change,
                ValuesAt("index_futures_raw", "oi_change", seen.oi_hist))
        /\ seen.pcr_z = calculate_z_score(
                db["options_summary_raw"][t].pcr,
                ValuesAt("options_summary_raw", "pcr", seen.pcr_hist))

C16_FailureNotifiedOnce ==
    last.op = "live" =>
        /\ (~last.run.cash_ok \/ last.run.raised_in # "") => last.message = "failure"
        /\ last.message = "failure" =>
              /\ last.run.outcome = "raised"
              /\ last.attempts \in 0..3
              /\ last.delivered => last.attempts >= 1
        /\ lived /\ runs >= 1

C16_Witness ==
    /\ last.op = "live" /\ last.run.raised_in = "store"
    /\ last.message = "failure" /\ ~last.delivered /\ last.attempts = 3

\* C17: send_message makes no attempt without credentials, otherwise stops at
\* its first successful attempt and makes at most retries (3) attempts; it
\* never raises, so a live run that computed its scores and whose store calls
\* all succeeded ends normally, with its derived records persisted, whether
\* or not the report was delivered.
C17_NotificationNeverPropagates ==
    last.op = "live" =>
        /\ last.message # "none" =>
              /\ last.attempts <= 3
              /\ ~last.fate.creds => last.attempts = 0 /\ ~last.delivered
              /\ (last.fate.creds /\ last.fate.fails < 3)
                    => last.attempts = last.fate.fails + 1 /\ last.delivered
              /\ (last.fate.creds /\ last.fate.fails >= 3)
                    => last.attempts = 3 /\ ~last.delivered
        /\ (last.run.computed /\ last.run.raised_in = "") =>
              /\ last.run.outcome = "done" /\ last.message = "report"
              /\ last.run.date \in DOMAIN db["institutional_zscores"]
              /\ last.run.date \in DOMAIN db["institutional_regime"]

C17_Witness ==
    /\ last.op = "live" /\ last.message = "report"
    /\ last.fate.creds /\ last.fate.fails = 3
    /\ last.attempts = 3 /\ ~last.delivered
    /\ last.run.outcome = "done"
    /\ last.run.date \in DOMAIN db["institutional_regime"]

\* C18, as claimed: the four windows backfill_from_csv scores a trade date d
\* against hold only observations of trade dates not later than d, also when
\* the store already holds rows of later dates.
C18_BackfillWindowsUpToDate ==
    last.op = "backfill" =>
        \A i \in DoneRows(last.log) :
            \A w \in WindowsOf(last.log[i]) :
                \A k \in 1..Len(w) : w[k] <= last.log[i].date

\* the trade dates before d that have a row in a raw table
PriorDates(table, d) == {e \in DOMAIN db[table] : e < d}

SignalTables == {"fii_cash_raw", "index_futures_raw", "options_summary_raw"}

\* C19, as claimed: backfill_from_csv writes derived records for a date d only
\* if each signal has at least 30 stored observations of dates strictly before
\* d, and live run() only if each has at least 20.
C19_GateCountsPriorDays ==
    /\ last.op = "backfill" =>
          \A i \in DoneRows(last.log) : \A table \in SignalTables :
              Cardinality(PriorDates(table, last.log[i].date)) >= 30
    /\ (last.op = "live" /\ last.run.computed) =>
          \A table \in SignalTables :
              Cardinality(PriorDates(table, last.run.date)) >= 20

\* C20, as claimed: when a live run for date t aborted after it had upserted
\* fii_cash_raw for t and before its derived records were written, a later
\* live run for t that fetches the same cash data and has sufficient history
\* writes the institutional_zscores and institutional_regime records for t.
C20_RerunAfterPartialFailure ==
    [][(/\ last.op = "live" /\ last.run.outcome = "raised"
        /\ last.run.date \in DOMAIN db["fii_cash_raw"]
        /\ last.run.date \notin DOMAIN db["institutional_regime"]
        /\ last'.op = "live" /\ last'.run.date = last.run.date
        /\ runs' = runs + 1
        /\ last'.run.raised_in = ""
        /\ last'.run.fetched /\ last'.run.fii_net = last.run.fii_net
        /\ \A table \in SignalTables : Cardinality(DOMAIN db[table]) >= 20)
       => /\ last.run.date \in DOMAIN db'["institutional_zscores"]
          /\ last.run.date \in DOMAIN db'["institutional_regime"]]_vars

\* the first attempt that meets a parsable response, or the fourth if none
LastAttempt(responses) ==
    LET good == {k \in 1..4 : responses[k] \in {"json", "untyped"}}
    IN  IF good = {} THEN 4 ELSE CHOOSE k \in good : \A j \in good : k <= j

\* C21: get_json ends after at most 4 attempts; it returns the parsed result
\* of the first successful attempt and makes no further one; after each
\* failed attempt but the fourth it sleeps 1.5, 3, 6 seconds plus the jitter;
\* after 4 failures it raises the error of the fourth attempt.
C21_GetJsonRetries ==
    last.op = "get_json" =>
        LET n    == LastAttempt(last.responses)
            ok   == last.responses[n] \in {"json", "untyped"}
            base == <<15, 30, 60>>
            res  == last.result
        IN  /\ res.attempts = n /\ res.attempts <= 4
            /\ res.slept = [k \in 1..(n - 1) |-> base[k] + last.jitters[k]]
            /\ ok => res.returned = n /\ res.raised.kind = "none"
            /\ ~ok => /\ res.returned = 0
                      /\ res.raised = [kind |-> last.responses[4], attempt |-> 4]

C21_Witness ==
    /\ last.op = "get_json"
    /\ last.result.attempts = 4 /\ last.result.returned = 0
    /\ last.result.raised = [kind |-> "html", attempt |-> 4]
    /\ last.responses[1] = "blocked"
    /\ last.result.slept = <<15, 32, 64>>

\* x lies between a and b
Between(x, a, b) == Min2(a, b) <= x /\ x <= Max2(a, b)

\* C22: after any sequence of seed, backfill and live runs from the empty
\* store every persisted irs lies in [-3, 3]; the irs a run computes lies
\* between its sts, which is within [-3, 3], and the irs it started from: the
\* sts itself at a bootstrap, else the persisted irs it read or the irs the
\* backfill carried.
C22_RegimeScoreBounded ==
    /\ \A d \in DOMAIN db["institutional_regime"] :
          LET row == db["institutional_regime"][d]
          IN  -3000 <= row.irs /\ row.irs <= 3000
    /\ (last.op = "live" /\ last.run.computed) =>
          LET r == last.run
          IN  /\ -30000 <= r.sts /\ r.sts <= 30000
              /\ Between(r.irs, r.sts, r.previous_irs)
              /\ r.prev_from = 0 => r.previous_irs = r.sts
              /\ r.prev_from # 0 => -30000 <= r.previous_irs /\ r.previous_irs <= 30000
    /\ last.op = "backfill" =>
          \A i \in DoneRows(last.log) :
              LET r == last.log[i]
              IN  /\ -30000 <= r.sts /\ r.sts <= 30000
                  /\ -30000 <= r.irs /\ r.irs <= 30000
                  /\ IF r.carried.some THEN Between(r.irs, r.sts, r.carried.v)
                     ELSE r.irs = r.sts

C22_Witness ==
    /\ last.op = "live" /\ last.run.outcome = "done"
    /\ last.run.prev_from # 0
    /\ last.run.sts > 10000
    /\ last.run.previous_irs < last.run.irs /\ last.run.irs < last.run.sts
    /\ db["institutional_regime"][last.run.date].irs > 0

\* C23: seed_neutral_history(30) on the empty store, on any day of the week,
\* writes records for weekday dates only and in ascending order, each with
\* sts = 0, irs = 0, market_phase Transition and tomorrow_bias Neutral, and
\* leaves at least 20 rows in fii_cash_raw, index_futures_raw and
\* options_summary_raw; a following live run that reaches the history gate
\* passes it.
C23_SeedingSuffices ==
    /\ last.op = "seed" =>
          LET order == seed_order(last.date, 30)
          IN  /\ \A i \in 1..Len(order) :
                    /\ order[i] % 7 < 5
                    /\ i > 1 => order[i - 1] < order[i]
              /\ \A table \in Tables \ {"dii_cash_raw"} :
                    /\ DOMAIN db[table] = {order[i] : i \in 1..Len(order)}
                    /\ \A d \in DOMAIN db[table] :
                          d % 7 < 5 /\ last.date - 30 <= d /\ d < last.date
              /\ db["dii_cash_raw"] = <<>>
              /\ \A d \in DOMAIN db["institutional_regime"] :
                    db["institutional_regime"][d]
                       = [sts |-> 0, irs |-> 0, market_phase |-> "Transition",
                          tomorrow_bias |-> "Neutral"]
              /\ \A table \in SignalTables : Cardinality(DOMAIN db[table]) >= 20
    /\ (last.op = "live" /\ last.run.gated) =>
          /\ last.run.min_len >= 20
          /\ last.run.outcome # "insufficient"

C23_Witness ==
    /\ last.op = "live" /\ today % 7 = 0
    /\ last.run.outcome = "done" /\ last.run.min_len = 21
    /\ Cardinality({d \in DOMAIN db["fii_cash_raw"] : d < today}) = 20

====
